---- MODULE Spec2Model ----
(***************************************************************************)
(* Model of backup_mud.py: the retention planner find_deletion_candidates  *)
(* (prefix filter, count mode, calendar mode) and the orchestration done   *)
(* by main over the remote folder.                                         *)
(*                                                                         *)
(* A file entry is a record with the keys id and name and, optionally,     *)
(* createdTime; the planner adds created_datetime to the entries it could  *)
(* parse.  A createdTime string "YYYY-MM-DDTHH:..Z" is modelled by its     *)
(* fields <<year, month, day, hour>>; a datetime by the record             *)
(* [year, month, day, hour].  Python's None is the empty tuple and a       *)
(* present optional value v is <<v>>.                                      *)
(***************************************************************************)
EXTENDS Integers, Sequences, FiniteSets, TLC

\* ------------------------------------------------------------------ bounds
MaxFiles == 3
MaxKeep == 2

\* ------------------------------------------------------- python primitives
None == <<>>
Some(v) == <<v>>

\* mutant: "is not None" in place of the truth value
IsNotNone(x) == x # None

\* truth value of an "int or None" argument: None and 0 are false
TruthyInt(x) == x # None /\ x[1] # 0

\* truth value of a "dict or None" argument: None and {} are false
TruthyDict(x) == x # None /\ DOMAIN x[1] # {}

\* str.startswith
StartsWith(s, prefix) ==
    /\ Len(prefix) <= Len(s)
    /\ SubSeq(s, 1, Len(prefix)) = prefix

\* ------------------------------------------------------ calendar (datetime)
IsLeap(y) == y % 4 = 0 /\ (y % 100 # 0 \/ y % 400 = 0)

DaysInMonth(y, m) ==
    IF m = 2 THEN (IF IsLeap(y) THEN 29 ELSE 28)
    ELSE IF m \in {4, 6, 9, 11} THEN 30 ELSE 31

DaysBeforeYear(y) ==
    (y - 1) * 365 + (y - 1) \div 4 - (y - 1) \div 100 + (y - 1) \div 400

RECURSIVE DaysBeforeMonth(_, _)
DaysBeforeMonth(y, m) ==
    IF m = 1 THEN 0 ELSE DaysBeforeMonth(y, m - 1) + DaysInMonth(y, m - 1)

\* datetime.toordinal(): 0001-01-01 is day 1
ToOrdinal(dt) == DaysBeforeYear(dt.year) + DaysBeforeMonth(dt.year, dt.month) + dt.day

\* date.fromordinal(n), the inverse of toordinal
FromOrdinal(n) ==
    LET y == CHOOSE yy \in (n \div 366)..(n \div 365 + 1) :
                 DaysBeforeYear(yy) < n /\ n <= DaysBeforeYear(yy + 1)
        m == CHOOSE mm \in 1..12 :
                 /\ DaysBeforeYear(y) + DaysBeforeMonth(y, mm) < n
                 /\ n <= DaysBeforeYear(y) + DaysBeforeMonth(y, mm) + DaysInMonth(y, mm)
    IN  [year |-> y, month |-> m, day |-> n - DaysBeforeYear(y) - DaysBeforeMonth(y, m)]

\* total order of aware datetimes: a > b
DtGreater(a, b) ==
    \/ a.year > b.year
    \/ a.year = b.year /\ a.month > b.month
    \/ a.year = b.year /\ a.month = b.month /\ a.day > b.day
    \/ a.year = b.year /\ a.month = b.month /\ a.day = b.day /\ a.hour > b.hour

\* dateutil.parser.isoparse succeeds exactly on well-formed field values
IsoParseOK(s) ==
    /\ s[2] \in 1..12
    /\ s[3] \in 1..DaysInMonth(s[1], s[2])
    /\ s[4] \in 0..23

IsoParse(s) == [year |-> s[1], month |-> s[2], day |-> s[3], hour |-> s[4]]

\* dt - relativedelta(months=n): calendar-aware, the day clipped to the
\* length of the target month
MinusMonths(dt, n) ==
    LET total == dt.year * 12 + (dt.month - 1) - n
        y == total \div 12
        m == (total % 12) + 1
        d == IF dt.day > DaysInMonth(y, m) THEN DaysInMonth(y, m) ELSE dt.day
    IN  [year |-> y, month |-> m, day |-> d, hour |-> dt.hour]

\* dt - relativedelta(days=n)
MinusDays(dt, n) ==
    LET r == FromOrdinal(ToOrdinal(dt) - n)
    IN  [year |-> r.year, month |-> r.month, day |-> r.day, hour |-> dt.hour]

\* dt - relativedelta(**{interval: n})
MinusRelativeDelta(dt, interval, n) ==
    CASE interval = "days" -> MinusDays(dt, n)
      [] interval = "weeks" -> MinusDays(dt, 7 * n)
      [] interval = "months" -> MinusMonths(dt, n)
      [] interval = "years" -> MinusMonths(dt, 12 * n)

\* ------------------------------------------- find_deletion_candidates
\* the keys of _keep_policy in insertion order
Intervals == <<"days", "weeks", "months", "years">>

\* mutant: the months key made a year and month composite
DateComponentYearMonth(dtobj, component) ==
    CASE component = "days" -> ToOrdinal(dtobj)
      [] component = "weeks" -> ToOrdinal(dtobj) \div 7
      [] component = "months" -> dtobj.year * 12 + dtobj.month
      [] component = "years" -> dtobj.year

\* date_component(dtobj, component)
DateComponent(dtobj, component) ==
    CASE component = "days" -> ToOrdinal(dtobj)
      [] component = "weeks" -> ToOrdinal(dtobj) \div 7
      [] component = "months" -> dtobj.month
      [] component = "years" -> dtobj.year

\* mutant: no prefix filter
AllFiles(fl, prefix) == fl

\* the entries of file_list whose name starts with filename_prefix, in order
MatchingFiles(fl, prefix) ==
    SelectSeq(fl, LAMBDA file_entry : StartsWith(file_entry.name, prefix))

Reverse(s) == [i \in 1..Len(s) |-> s[Len(s) + 1 - i]]

\* mutant: count mode returning the most recent candidate first
CountSelectNewestFirst(mf, k) ==
    IF Len(mf) <= k THEN <<>> ELSE Reverse(SubSeq(mf, 1, Len(mf) - k))

\* mutant: count mode sparing one entry more than max_keep
CountSelectKeepsOneMore(mf, k) ==
    IF Len(mf) <= k + 1 THEN <<>> ELSE SubSeq(mf, 1, Len(mf) - k - 1)

\* count mode: all but the last k entries
CountSelect(mf, k) ==
    IF Len(mf) <= k THEN <<>> ELSE SubSeq(mf, 1, Len(mf) - k)

\* isoparse raises ValueError on some entry that carries createdTime
ParseRaises(mf) ==
    \E i \in 1..Len(mf) :
        "createdTime" \in DOMAIN mf[i] /\ ~IsoParseOK(mf[i].createdTime)

\* every entry that carries createdTime gets the key created_datetime
WithCreatedDatetime(mf) ==
    [i \in 1..Len(mf) |->
        IF "createdTime" \in DOMAIN mf[i]
        THEN [k \in DOMAIN mf[i] \cup {"created_datetime"} |->
                 IF k = "created_datetime" THEN IsoParse(mf[i].createdTime)
                 ELSE mf[i][k]]
        ELSE mf[i]]

HasCreated(f) == "created_datetime" \in DOMAIN f

\* _keep_policy: keep_policy.get with the defaults days 7, others 0
EffectivePolicy(kp) ==
    [interval \in {"days", "weeks", "months", "years"} |->
        IF interval \in DOMAIN kp THEN kp[interval]
        ELSE IF interval = "days" THEN 7 ELSE 0]

\* grouped_by_time[interval]: bucket key -> the entries of that bucket, in
\* the order of matching_files; entries without created_datetime are skipped
GroupBy(mf, interval) ==
    LET dated == SelectSeq(mf, HasCreated)
        keys == {DateComponent(dated[i].created_datetime, interval) : i \in 1..Len(dated)}
    IN  [key \in keys |->
            SelectSeq(dated,
                LAMBDA f : DateComponent(f.created_datetime, interval) = key)]

GroupedByTime(mf) ==
    [interval \in {"days", "weeks", "months", "years"} |-> GroupBy(mf, interval)]

RemoveAt(s, i) == SubSeq(s, 1, i - 1) \o SubSeq(s, i + 1, Len(s))

\* sorted(s, key=created_datetime, reverse=True): descending, entries with
\* equal keys keep their order (stable); a list of fewer than two entries is
\* returned without any comparison of keys
RECURSIVE SortedByCreatedDesc(_)
SortedByCreatedDesc(s) ==
    IF Len(s) <= 1 THEN s
    ELSE LET i == CHOOSE j \in 1..Len(s) :
                    /\ \A l \in 1..Len(s) :
                           ~DtGreater(s[l].created_datetime, s[j].created_datetime)
                    /\ \A l \in 1..(j - 1) :
                           DtGreater(s[j].created_datetime, s[l].created_datetime)
         IN  <<s[i]>> \o SortedByCreatedDesc(RemoveAt(s, i))

SetMax(S) == CHOOSE x \in S : \A y \in S : y <= x

\* mutant: the first entry of the bucket, without sorting
FirstOfBucket(bucket) == bucket[1]

\* files_in_interval[0]: the most recently created entry of a bucket
BucketRepresentative(bucket) == SortedByCreatedDesc(bucket)[1]

\* mutant: no window test
InsideWindowAlways(created, window_start) == TRUE

\* mutant: the window start itself counts as inside
InsideWindowInclusive(created, window_start) == ~DtGreater(window_start, created)

\* whether the representative of a bucket is inside the window (line 151)
InsideWindow(created, window_start) == DtGreater(created, window_start)

\* the loop over sorted(grouped_by_time[interval], reverse=True): the ids in
\* keep after the buckets with the given keys have been visited
RECURSIVE EvalBuckets(_, _, _, _)
EvalBuckets(keys, buckets, kept, window_start) ==
    IF keys = {} THEN kept
    ELSE LET key == SetMax(keys)
             keep_file == BucketRepresentative(buckets[key])
             kept2 == IF keep_file.id \in kept THEN kept
                      ELSE IF InsideWindow(keep_file.created_datetime, window_start)
                           THEN kept \cup {keep_file.id}
                           ELSE kept
         IN  EvalBuckets(keys \ {key}, buckets, kept2, window_start)

WindowStart(t, interval, policy) == MinusRelativeDelta(t, interval, policy[interval])

\* one iteration of "for interval in _keep_policy" (lines 139-157)
EvalInterval(kept, interval, grouped, policy, t) ==
    EvalBuckets(DOMAIN grouped[interval], grouped[interval], kept,
                WindowStart(t, interval, policy))

\* keep after the first n intervals
RECURSIVE KeepAfter(_, _, _, _)
KeepAfter(n, grouped, policy, t) ==
    IF n = 0 THEN {}
    ELSE EvalInterval(KeepAfter(n - 1, grouped, policy, t), Intervals[n],
                      grouped, policy, t)

\* the entries of matching_files that are not in keep
NotKept(mf, kept) == SelectSeq(mf, LAMBDA x : x.id \notin kept)

\* the final sorted() compares None with a datetime (TypeError) as soon as
\* two entries are compared and one has no created_datetime
SortRaises(s) == Len(s) >= 2 /\ \E i \in 1..Len(s) : ~HasCreated(s[i])

\* the whole call: [raised |-> exception or "none", result |-> returned list]
Returned(r) == [raised |-> "none", result |-> r]
Raised(e) == [raised |-> e, result |-> <<>>]

FindDeletionCandidates(fl, prefix, mk, kp, t) ==
    LET mf == MatchingFiles(fl, prefix)
    IN  IF TruthyInt(mk) THEN Returned(CountSelect(mf, mk[1]))
        ELSE IF ParseRaises(mf) THEN Raised("ValueError")
        ELSE IF ~TruthyDict(kp) THEN Raised("RuntimeError")
        ELSE LET mfd == WithCreatedDatetime(mf)
                 kept == KeepAfter(4, GroupedByTime(mfd), EffectivePolicy(kp[1]), t)
                 dl == NotKept(mfd, kept)
             IN  IF SortRaises(dl) THEN Raised("TypeError")
                 ELSE Returned(SortedByCreatedDesc(dl))

\* ------------------------------------------------------------ the inputs
\* the clock read by datetime.now(): 2021-03-31 12:00 UTC
NowPool == {[year |-> 2021, month |-> 3, day |-> 31, hour |-> 12]}

Prefix == <<"m", "_">>

MatchingName == <<"m", "_", "a">>
OtherName == <<"m", "x", "_">>

\* createdTime values of the series: today 06:00, 09:00 and 12:00 (the
\* clock's value), yesterday 18:00, the same month one year earlier, 400 days
\* ago
GoodTimes ==
    {<<2021, 3, 31, 6>>, <<2021, 3, 31, 9>>, <<2021, 3, 31, 12>>, <<2021, 3, 30, 18>>,
     <<2020, 3, 20, 6>>, <<2020, 2, 25, 6>>}

\* February 30th: isoparse raises ValueError
BadTime == <<2021, 2, 30, 6>>

\* file entries as the listing returns them, before ids are given
EntryPool ==
    {[name |-> MatchingName, createdTime |-> t] : t \in GoodTimes \cup {BadTime}}
    \cup {[name |-> MatchingName]}
    \cup {[name |-> OtherName, createdTime |-> BadTime]}

\* ids are unique: the entry at position i gets id i
WithIds(s) ==
    [i \in 1..Len(s) |->
        [k \in DOMAIN s[i] \cup {"id"} |-> IF k = "id" THEN i ELSE s[i][k]]]

FileLists == {WithIds(s) : s \in UNION {[1..n -> EntryPool] : n \in 0..MaxFiles}}

\* keep_policy dicts: keys may be absent
PolicyPool ==
    {[days |-> 7], [days |-> 1], [years |-> 1],
     [days |-> 0, weeks |-> 1], [days |-> 0, months |-> 1],
     [days |-> 0, months |-> 24], [days |-> 0, years |-> 2],
     [days |-> 1, weeks |-> 1, months |-> 1, years |-> 1],
     [days |-> 0, weeks |-> 0, months |-> 0, years |-> 0]}

EmptyDict == [k \in {} |-> 0]

\* <<max_keep, keep_policy>> as the caller passes them
PolicyArgs ==
    ({None} \X ({None, Some(EmptyDict)} \cup {Some(p) : p \in PolicyPool}))
    \cup ({Some(k) : k \in 0..MaxKeep} \X {None, Some([days |-> 7])})

\* ------------------------------------------------------------------ state
VARIABLES
    \* find_deletion_candidates
    file_list,        \* argument: the listing
    filename_prefix,  \* argument
    max_keep,         \* argument: None or Some(int)
    keep_policy,      \* argument: None or Some(dict)
    now,              \* the value datetime.now() returns
    pc,               \* position in find_deletion_candidates
    matching_files,
    eff_policy,       \* _keep_policy
    grouped_by_time,
    keep,             \* the ids that are keys of keep
    why,              \* interval -> ids added to keep in that interval's pass
    idx,              \* index in Intervals of the next interval to evaluate
    result,           \* the returned list
    raised,           \* "none" or the exception that ended the call
    \* main
    mpc,              \* position in main
    cli,              \* the parsed command line (args)
    keep_old,
    main_keep_policy, \* main's local keep_policy
    parent_folder_id,
    old_files,
    delete_list,      \* the entries delete_files has still to delete
    local_tarfile,    \* whether the local archive exists
    drive_folders,    \* remote: ids of the folders named backup_dir
    drive_files,      \* remote: the files of the backup folder, by createdTime
    drive_before,     \* remote content when the run started
    next_id,          \* the id the remote gives to the next created object
    runs              \* completed runs of main

args == <<file_list, filename_prefix, max_keep, keep_policy>>

locals == <<matching_files, eff_policy, grouped_by_time, keep, why, idx, result, raised>>

mainvars == <<mpc, cli, keep_old, main_keep_policy, parent_folder_id, old_files,
              delete_list, local_tarfile, drive_folders, drive_files,
              drive_before, next_id, runs>>

vars == <<args, now, pc, locals, mainvars>>

NoWhy == [interval \in {"days", "weeks", "months", "years"} |-> {}]

\* the locals of a fresh call
FreshLocals ==
    /\ matching_files = <<>>
    /\ eff_policy = None
    /\ grouped_by_time = None
    /\ keep = {}
    /\ why = NoWhy
    /\ idx = 1
    /\ result = <<>>
    /\ raised = "none"

\* main is not running: the planner is called directly (as test.py does)
MainIdle ==
    /\ mpc = "idle"
    /\ cli = None
    /\ keep_old = None
    /\ main_keep_policy = None
    /\ parent_folder_id = None
    /\ old_files = <<>>
    /\ delete_list = <<>>
    /\ local_tarfile = FALSE
    /\ drive_folders = <<>>
    /\ drive_files = <<>>
    /\ drive_before = None
    /\ next_id = 1
    /\ runs = 0

Init ==
    /\ file_list \in FileLists
    /\ filename_prefix = Prefix
    /\ \E pa \in PolicyArgs : max_keep = pa[1] /\ keep_policy = pa[2]
    /\ now \in NowPool
    /\ pc = "filter"
    /\ FreshLocals
    /\ MainIdle

\* lines 97-100
Filter ==
    /\ pc = "filter"
    /\ matching_files' = MatchingFiles(file_list, filename_prefix)
    /\ pc' = "dispatch"
    /\ UNCHANGED <<args, now, eff_policy, grouped_by_time, keep, why, idx, result,
                   raised, mainvars>>

\* lines 103-106
CountMode ==
    /\ pc = "dispatch"
    /\ TruthyInt(max_keep)
    /\ result' = CountSelect(matching_files, max_keep[1])
    /\ pc' = "done"
    /\ UNCHANGED <<args, now, matching_files, eff_policy, grouped_by_time, keep, why,
                   idx, raised, mainvars>>

\* lines 108-111
ParseCreatedTimes ==
    /\ pc = "dispatch"
    /\ ~TruthyInt(max_keep)
    /\ IF ParseRaises(matching_files)
       THEN /\ raised' = "ValueError"
            /\ pc' = "raised"
            /\ UNCHANGED matching_files
       ELSE /\ matching_files' = WithCreatedDatetime(matching_files)
            /\ pc' = "policy"
            /\ UNCHANGED raised
    /\ UNCHANGED <<args, now, eff_policy, grouped_by_time, keep, why, idx, result,
                   mainvars>>

\* lines 113-121
BuildKeepPolicy ==
    /\ pc = "policy"
    /\ IF TruthyDict(keep_policy)
       THEN /\ eff_policy' = Some(EffectivePolicy(keep_policy[1]))
            /\ pc' = "group"
            /\ UNCHANGED raised
       ELSE /\ raised' = "RuntimeError"
            /\ pc' = "raised"
            /\ UNCHANGED eff_policy
    /\ UNCHANGED <<args, now, matching_files, grouped_by_time, keep, why, idx, result,
                   mainvars>>

\* lines 123-136
GroupFiles ==
    /\ pc = "group"
    /\ grouped_by_time' = Some(GroupedByTime(matching_files))
    /\ pc' = "evaluate"
    /\ UNCHANGED <<args, now, matching_files, eff_policy, keep, why, idx, result,
                   raised, mainvars>>

\* lines 139-157, one interval
EvaluateInterval ==
    /\ pc = "evaluate"
    /\ LET interval == Intervals[idx]
           kept == EvalInterval(keep, interval, grouped_by_time[1], eff_policy[1], now)
       IN  /\ keep' = kept
           /\ why' = [why EXCEPT ![interval] = kept \ keep]
    /\ idx' = idx + 1
    /\ pc' = IF idx = Len(Intervals) THEN "return" ELSE "evaluate"
    /\ UNCHANGED <<args, now, matching_files, eff_policy, grouped_by_time, result,
                   raised, mainvars>>

\* line 159
ReturnSorted ==
    /\ pc = "return"
    /\ LET candidates == NotKept(matching_files, keep)
       IN  IF SortRaises(candidates)
           THEN /\ raised' = "TypeError"
                /\ pc' = "raised"
                /\ UNCHANGED result
           ELSE /\ result' = SortedByCreatedDesc(candidates)
                /\ pc' = "done"
                /\ UNCHANGED raised
    /\ UNCHANGED <<args, now, matching_files, eff_policy, grouped_by_time, keep, why,
                   idx, mainvars>>

Next ==
    \/ Filter
    \/ CountMode
    \/ ParseCreatedTimes
    \/ BuildKeepPolicy
    \/ GroupFiles
    \/ EvaluateInterval
    \/ ReturnSorted

Spec == Init /\ [][Next]_vars

\* ------------------------------------------------------------------- main
MaxRuns == 2

\* the command lines: [dry_run, keep_old, keep_policy_days, ..weeks, ..months,
\* ..years]; --backup-prefix m, so that the series prefix is "m_"
BackupPrefix == <<"m">>

CliPolicyPool ==
    {[days |-> 0, weeks |-> 0, months |-> 0, years |-> 0],
     [days |-> 7, weeks |-> 0, months |-> 0, years |-> 0],
     [days |-> 1, weeks |-> 0, months |-> 1, years |-> 0]}

CliPool ==
    {[dry_run |-> d, keep_old |-> k, keep_policy |-> p] :
        d \in BOOLEAN,
        k \in {None} \cup {Some(n) : n \in 0..MaxKeep},
        p \in CliPolicyPool}

\* createdTime values of the files already stored
DriveTimes == {<<2020, 2, 25, 6>>, <<2021, 3, 30, 18>>, <<2021, 3, 31, 6>>}

DriveEntryPool ==
    {[name |-> n, createdTime |-> t] : n \in {MatchingName, OtherName}, t \in DriveTimes}

\* the listing is ordered by createdTime (orderBy="createdTime")
OrderedByCreatedTime(s) ==
    \A i, j \in 1..Len(s) :
        i < j => ~DtGreater(IsoParse(s[i].createdTime), IsoParse(s[j].createdTime))

DriveListings ==
    {WithIds(s) : s \in {t \in UNION {[1..n -> DriveEntryPool] : n \in 0..MaxFiles} :
                            OrderedByCreatedTime(t)}}

\* the id of the backup folder when it exists before the first run
FolderId == 0

Digit(n) == <<"0", "1", "2", "3", "4", "5", "6", "7", "8", "9">>[n + 1]

\* strftime("%Y-%m-%d")
StrfDate(dt) ==
    <<Digit(dt.year \div 1000), Digit((dt.year \div 100) % 10),
      Digit((dt.year \div 10) % 10), Digit(dt.year % 10), "-",
      Digit(dt.month \div 10), Digit(dt.month % 10), "-",
      Digit(dt.day \div 10), Digit(dt.day % 10)>>

\* "<backup_prefix>_%Y-%m-%d.tar.xz"
TarfileName(backup_prefix, dt) ==
    backup_prefix \o <<"_">> \o StrfDate(dt) \o <<".tar.xz">>

\* the createdTime the remote stamps on an object created at dt
Stamp(dt) == <<dt.year, dt.month, dt.day, dt.hour>>

\* find_files_in_folder: the files whose parent is folder_id
FilesInFolder(folder_id) ==
    IF drive_folders # <<>> /\ folder_id = drive_folders[1] THEN drive_files ELSE <<>>

\* the remote content
Remote == [folders |-> drive_folders, files |-> drive_files]

MainInit ==
    /\ cli \in {Some(c) : c \in CliPool}
    /\ \E listing \in DriveListings :
           /\ drive_files = listing
           /\ drive_folders \in (IF listing = <<>> THEN {<<>>, <<FolderId>>}
                                 ELSE {<<FolderId>>})
           /\ next_id = Len(listing) + 1
           /\ drive_before = Some([folders |-> drive_folders, files |-> listing])
    /\ now \in NowPool
    /\ mpc = "start"
    /\ keep_old = None
    /\ main_keep_policy = None
    /\ parent_folder_id = None
    /\ old_files = <<>>
    /\ delete_list = <<>>
    /\ local_tarfile = FALSE
    /\ runs = 0
    /\ pc = "idle"
    /\ file_list = <<>>
    /\ filename_prefix = <<>>
    /\ max_keep = None
    /\ keep_policy = None
    /\ FreshLocals

plannervars == <<args, pc, locals>>

\* lines 277-300: the retention arguments
ParseArgs ==
    /\ mpc = "start"
    /\ LET a == cli[1]
           any_policy == \E interval \in DOMAIN a.keep_policy : a.keep_policy[interval] # 0
       IN  IF any_policy
           THEN IF TruthyInt(a.keep_old)
                THEN /\ mpc' = "usage_error"
                     /\ UNCHANGED <<keep_old, main_keep_policy>>
                ELSE /\ keep_old' = a.keep_old
                     /\ main_keep_policy' = Some(a.keep_policy)
                     /\ mpc' = "init_folder"
           ELSE /\ keep_old' = IF TruthyInt(a.keep_old) THEN a.keep_old ELSE Some(4)
                /\ main_keep_policy' = None
                /\ mpc' = "init_folder"
    /\ UNCHANGED <<plannervars, now, cli, parent_folder_id, old_files, delete_list,
                   local_tarfile, drive_folders, drive_files, drive_before, next_id, runs>>

\* lines 302-305 and 174-189: init_backup_folder
InitBackupFolder ==
    /\ mpc = "init_folder"
    /\ IF drive_folders = <<>>
       THEN /\ drive_folders' = <<next_id>>
            /\ parent_folder_id' = Some(next_id)
            /\ next_id' = next_id + 1
       ELSE /\ parent_folder_id' = Some(drive_folders[1])
            /\ UNCHANGED <<drive_folders, next_id>>
    /\ mpc' = "list"
    /\ UNCHANGED <<plannervars, now, cli, keep_old, main_keep_policy, old_files,
                   delete_list, local_tarfile, drive_files, drive_before, runs>>

\* line 308: find_files_in_folder
FindOldFiles ==
    /\ mpc = "list"
    /\ old_files' = FilesInFolder(parent_folder_id[1])
    /\ mpc' = "plan"
    /\ UNCHANGED <<plannervars, now, cli, keep_old, main_keep_policy, parent_folder_id,
                   delete_list, local_tarfile, drive_folders, drive_files,
                   drive_before, next_id, runs>>

\* line 309: the call of find_deletion_candidates
CallPlanner ==
    /\ mpc = "plan"
    /\ file_list' = old_files
    /\ filename_prefix' = BackupPrefix \o <<"_">>
    /\ max_keep' = keep_old
    /\ keep_policy' = main_keep_policy
    /\ pc' = "filter"
    /\ matching_files' = <<>>
    /\ eff_policy' = None
    /\ grouped_by_time' = None
    /\ keep' = {}
    /\ why' = NoWhy
    /\ idx' = 1
    /\ result' = <<>>
    /\ raised' = "none"
    /\ mpc' = "planning"
    /\ UNCHANGED <<now, cli, keep_old, main_keep_policy, parent_folder_id, old_files,
                   delete_list, local_tarfile, drive_folders, drive_files,
                   drive_before, next_id, runs>>

\* lines 309-314: the call returned; a dry run only prints the list
PlannerReturned ==
    /\ mpc = "planning"
    /\ pc = "done"
    /\ delete_list' = result
    /\ mpc' = IF result # <<>> /\ ~cli[1].dry_run THEN "delete" ELSE "tar"
    /\ UNCHANGED <<plannervars, now, cli, keep_old, main_keep_policy, parent_folder_id,
                   old_files, local_tarfile, drive_folders, drive_files,
                   drive_before, next_id, runs>>

\* lines 314 and 201-210: delete_files(delete_list, trash=False), one entry
DeleteFile ==
    /\ mpc = "delete"
    /\ delete_list # <<>>
    /\ drive_files' = SelectSeq(drive_files, LAMBDA f : f.id # Head(delete_list).id)
    /\ delete_list' = Tail(delete_list)
    /\ mpc' = IF Tail(delete_list) = <<>> THEN "tar" ELSE "delete"
    /\ UNCHANGED <<plannervars, now, cli, keep_old, main_keep_policy, parent_folder_id,
                   old_files, local_tarfile, drive_folders, drive_before, next_id, runs>>

\* lines 317-319: tar_directory
TarDirectory ==
    /\ mpc = "tar"
    /\ local_tarfile' = IF cli[1].dry_run THEN local_tarfile ELSE TRUE
    /\ mpc' = "upload"
    /\ UNCHANGED <<plannervars, now, cli, keep_old, main_keep_policy, parent_folder_id,
                   old_files, delete_list, drive_folders, drive_files, drive_before,
                   next_id, runs>>

\* lines 322-326 and 230-244: upload_file
UploadFile ==
    /\ mpc = "upload"
    /\ IF cli[1].dry_run
       THEN UNCHANGED <<drive_files, next_id>>
       ELSE /\ drive_files' =
                   Append(drive_files,
                          [id |-> next_id,
                           name |-> TarfileName(BackupPrefix, now),
                           createdTime |-> Stamp(now)])
            /\ next_id' = next_id + 1
    /\ mpc' = "unlink"
    /\ UNCHANGED <<plannervars, now, cli, keep_old, main_keep_policy, parent_folder_id,
                   old_files, delete_list, local_tarfile, drive_folders, drive_before,
                   runs>>

\* lines 329-330: os.unlink(tarfile); main returns
Unlink ==
    /\ mpc = "unlink"
    /\ local_tarfile' = IF cli[1].dry_run THEN local_tarfile ELSE FALSE
    /\ mpc' = "exit"
    /\ runs' = runs + 1
    /\ UNCHANGED <<plannervars, now, cli, keep_old, main_keep_policy, parent_folder_id,
                   old_files, delete_list, drive_folders, drive_files, drive_before,
                   next_id>>

\* the same command line is run again the next day
NextRun ==
    /\ mpc = "exit"
    /\ runs < MaxRuns
    /\ now' = MinusDays(now, -1)
    /\ drive_before' = Some(Remote)
    /\ mpc' = "start"
    /\ keep_old' = None
    /\ main_keep_policy' = None
    /\ parent_folder_id' = None
    /\ old_files' = <<>>
    /\ delete_list' = <<>>
    /\ UNCHANGED <<plannervars, cli, local_tarfile, drive_folders, drive_files,
                   next_id, runs>>

MainNext ==
    \/ ParseArgs
    \/ InitBackupFolder
    \/ FindOldFiles
    \/ CallPlanner
    \/ Next
    \/ PlannerReturned
    \/ DeleteFile
    \/ TarDirectory
    \/ UploadFile
    \/ Unlink
    \/ NextRun

MainSpec == MainInit /\ [][MainNext]_vars

\* ------------------------------------------------------------ properties
Finished == pc \in {"done", "raised"}

Ids(s) == {s[i].id : i \in 1..Len(s)}

\* the creation instant of an entry whose createdTime is well formed
Dated(f) == "createdTime" \in DOMAIN f /\ IsoParseOK(f.createdTime)
CreatedAt(f) == IsoParse(f.createdTime)

\* the prefix-matching records of the input, stated on characters
Matches(f) ==
    \A i \in 1..Len(filename_prefix) :
        i <= Len(f.name) /\ f.name[i] = filename_prefix[i]
MatchingInput == SelectSeq(file_list, Matches)

\* the matching records are ordered oldest-to-newest
AscendingInput ==
    /\ \A i \in 1..Len(MatchingInput) : Dated(MatchingInput[i])
    /\ \A i, j \in 1..Len(MatchingInput) :
           i < j => ~DtGreater(CreatedAt(MatchingInput[i]), CreatedAt(MatchingInput[j]))

CountPolicyGiven == max_keep # None
CalendarPolicyGiven == keep_policy # None

\* a count policy of at least 1 is in force; otherwise the call is (at best)
\* a calendar-mode call
CountInForce == max_keep # None /\ max_keep[1] >= 1

\* C1: count mode, for every maxKeep = k >= 0 and ascending matching records:
\* the call returns, and the deletion set is exactly the matching records
\* except the last k of the list (empty when there are at most k).
C1_CountKeepsLastK ==
    (Finished /\ CountPolicyGiven /\ AscendingInput) =>
        /\ pc = "done"
        /\ Ids(result) =
               {MatchingInput[i].id : i \in 1..(Len(MatchingInput) - max_keep[1])}

\* C2 as claimed: in both modes the returned sequence is strictly descending
\* by creation time.
C2_StrictlyDescending ==
    pc = "done" =>
        \A i, j \in 1..Len(result) :
            (i < j /\ Dated(result[i]) /\ Dated(result[j])) =>
                DtGreater(CreatedAt(result[i]), CreatedAt(result[j]))

\* C2 amended: in calendar mode the returned sequence is descending by
\* creation time, entries of equal creation time staying in input order; in
\* count mode it is in input order, hence oldest first for ascending input.
C2_OrderByMode ==
    pc = "done" =>
        \A i, j \in 1..Len(result) :
            i < j =>
                IF CountInForce
                THEN /\ result[i].id < result[j].id
                     /\ AscendingInput =>
                            ~DtGreater(CreatedAt(result[i]), CreatedAt(result[j]))
                ELSE /\ Dated(result[i]) /\ Dated(result[j])
                     /\ ~DtGreater(CreatedAt(result[j]), CreatedAt(result[i]))
                     /\ CreatedAt(result[i]) = CreatedAt(result[j]) =>
                            result[i].id < result[j].id

\* count mode returned the two oldest of three ascending records, older first
C2_Witness ==
    /\ pc = "done"
    /\ CountInForce
    /\ AscendingInput
    /\ Len(MatchingInput) = 3
    /\ Len(result) = 2
    /\ DtGreater(CreatedAt(result[2]), CreatedAt(result[1]))

\* C3 as claimed: a call given both policies, or neither, fails and returns
\* no deletion set; a call that returns one was given exactly one policy.
C3_BothOrNeitherFails ==
    /\ (Finished /\ CountPolicyGiven = CalendarPolicyGiven) =>
           (pc = "raised" /\ result = <<>>)
    /\ pc = "done" => CountPolicyGiven # CalendarPolicyGiven

\* C3 amended: a call given neither policy (max_keep None or 0, keep_policy
\* None or empty) fails and returns no deletion set; a call given max_keep >= 1
\* together with a keep_policy does not fail: it returns the count-mode
\* deletion set, the same as without the keep_policy.
C3_NeitherFailsCountWins ==
    Finished =>
        /\ (~CountInForce /\ (keep_policy = None \/ keep_policy = Some(EmptyDict))) =>
               (pc = "raised" /\ result = <<>>)
        /\ (CountInForce /\ CalendarPolicyGiven) =>
               /\ pc = "done"
               /\ Ids(result) =
                      {MatchingInput[i].id : i \in 1..(Len(MatchingInput) - max_keep[1])}
               /\ [raised |-> raised, result |-> result] =
                      FindDeletionCandidates(file_list, filename_prefix, max_keep, None, now)

\* both policies given, and the call returned a non-empty count-mode result
C3_Witness ==
    /\ pc = "done"
    /\ CountInForce
    /\ CalendarPolicyGiven
    /\ result # <<>>

\* the effective count of a granularity
CountOf(interval) == eff_policy[1][interval]

DatedMatching == SelectSeq(MatchingInput, Dated)

SameBucket(f, g, interval) ==
    DateComponent(CreatedAt(f), interval) = DateComponent(CreatedAt(g), interval)

\* no record of f's bucket is more recent than f
MostRecentOfBucket(f, interval) ==
    LET dm == DatedMatching
    IN  \A i \in 1..Len(dm) :
            SameBucket(f, dm[i], interval) => ~DtGreater(CreatedAt(dm[i]), CreatedAt(f))

\* the kept records: matching records absent from the returned deletion set
KeptIds == Ids(MatchingInput) \ Ids(result)

OnlyDays7 ==
    /\ ~CountInForce
    /\ keep_policy # None
    /\ EffectivePolicy(keep_policy[1]) =
           [days |-> 7, weeks |-> 0, months |-> 0, years |-> 0]

\* all matching records were created today, at pairwise distinct times
AllTodayDistinct ==
    /\ \A i \in 1..Len(MatchingInput) :
           /\ Dated(MatchingInput[i])
           /\ ToOrdinal(CreatedAt(MatchingInput[i])) = ToOrdinal(now)
    /\ \A i, j \in 1..Len(MatchingInput) :
           i # j => CreatedAt(MatchingInput[i]) # CreatedAt(MatchingInput[j])

\* C5: in calendar mode every kept record is the most recently created record
\* of its bucket for some granularity; a granularity retains at most one
\* record per bucket; and with the policy days 7 alone and all matching
\* records created today at distinct times, the newest alone is kept.
C5_RetentionFloor ==
    (pc = "done" /\ ~CountInForce) =>
        LET mi == MatchingInput
            dm == DatedMatching
            kept == KeptIds
        IN  /\ \A i \in 1..Len(mi) :
                   mi[i].id \in kept =>
                       /\ Dated(mi[i])
                       /\ \E interval \in {"days", "weeks", "months", "years"} :
                              MostRecentOfBucket(mi[i], interval)
            /\ \A interval \in {"days", "weeks", "months", "years"} :
                   \A i, j \in 1..Len(dm) :
                       ( /\ i # j
                         /\ dm[i].id \in why[interval]
                         /\ SameBucket(dm[i], dm[j], interval) ) =>
                           dm[j].id \notin why[interval]
            /\ (OnlyDays7 /\ AllTodayDistinct /\ mi # <<>>) =>
                   /\ Cardinality(kept) = 1
                   /\ Len(result) = Len(mi) - 1
                   /\ \A i \in 1..Len(mi) :
                          mi[i].id \in kept => MostRecentOfBucket(mi[i], "days")

\* three records of today at distinct times under days 7: two are returned
C5_Witness ==
    /\ pc = "done"
    /\ OnlyDays7
    /\ AllTodayDistinct
    /\ Len(MatchingInput) = 3
    /\ Len(result) = 2

\* f is the representative of its bucket: no record of the bucket is more
\* recent, and those equally recent come later in the input
IsRepresentative(f, interval) ==
    LET dm == DatedMatching
    IN  \A i \in 1..Len(dm) :
            (dm[i].id # f.id /\ SameBucket(f, dm[i], interval)) =>
                \/ DtGreater(CreatedAt(f), CreatedAt(dm[i]))
                \/ CreatedAt(f) = CreatedAt(dm[i]) /\ f.id < dm[i].id

\* f is the representative of its bucket and strictly later than the window
\* start of some granularity
RetainedBySome(f) ==
    /\ Dated(f)
    /\ \E interval \in {"days", "weeks", "months", "years"} :
           /\ IsRepresentative(f, interval)
           /\ DtGreater(CreatedAt(f),
                        MinusRelativeDelta(now, interval, CountOf(interval)))

CalendarMode ==
    ~CountInForce /\ keep_policy # None /\ keep_policy # Some(EmptyDict)

\* C7: a calendar-mode call never fails on a matching record whose creation
\* timestamp is missing or unparseable: it returns a deletion set, and such a
\* record is never kept.
C7_BadTimestampNotFatal ==
    (Finished /\ CalendarMode) =>
        /\ pc = "done"
        /\ \A i \in 1..Len(MatchingInput) :
               ~Dated(MatchingInput[i]) => MatchingInput[i].id \in Ids(result)

\* C8: every returned record has a name beginning with the prefix, and the
\* outcome equals the outcome on the input without the non-matching records.
C8_PrefixScoping ==
    Finished =>
        /\ \A i \in 1..Len(result) : Matches(result[i])
        /\ [raised |-> raised, result |-> result] =
               FindDeletionCandidates(MatchingInput, filename_prefix, max_keep,
                                      keep_policy, now)

\* the input held a non-matching record and a deletion set was returned
C8_Witness ==
    /\ pc = "done"
    /\ Len(MatchingInput) < Len(file_list)
    /\ result # <<>>

C9_DryRunChangesNothing ==
    (cli # None /\ cli[1].dry_run) =>
        /\ Remote = drive_before[1]
        /\ ~local_tarfile

\* the count the caller configured for a granularity: 0 when the key is not
\* given in keep_policy
ConfiguredCount(interval) ==
    IF interval \in DOMAIN keep_policy[1] THEN keep_policy[1][interval] ELSE 0

\* C11: in calendar mode a granularity whose count is zero or that is not
\* given in keep_policy keeps no record, and every kept record is the
\* representative of its bucket, inside the window, for a granularity that
\* was configured with a non-zero count.
C11_OnlyConfiguredGranularitiesKeep ==
    (pc = "done" /\ CalendarMode) =>
        LET mi == MatchingInput
            kept == KeptIds
        IN  /\ \A interval \in {"days", "weeks", "months", "years"} :
                   ConfiguredCount(interval) = 0 => why[interval] = {}
            /\ \A i \in 1..Len(mi) :
                   mi[i].id \in kept =>
                       /\ Dated(mi[i])
                       /\ \E interval \in {"days", "weeks", "months", "years"} :
                              /\ ConfiguredCount(interval) # 0
                              /\ IsRepresentative(mi[i], interval)
                              /\ DtGreater(CreatedAt(mi[i]),
                                           MinusRelativeDelta(now, interval,
                                                              ConfiguredCount(interval)))

\* the name begins with "<backup_prefix>_"
InSeries(f) ==
    LET p == BackupPrefix \o <<"_">>
    IN  \A i \in 1..Len(p) : i <= Len(f.name) /\ f.name[i] = p[i]

\* a run of main that is not a dry run and applies the count policy k >= 1
NonDryCountRun ==
    /\ cli # None
    /\ ~cli[1].dry_run
    /\ keep_old # None
    /\ keep_old[1] >= 1
    /\ main_keep_policy = None

\* C12: in every non-dry count-mode run of main with keep-old = k >= 1, when
\* the run has completed the folder holds at most k + 1 files of the series,
\* the last of them the archive this run uploaded; while old backups are
\* being deleted nothing has been uploaded yet, and from the upload on none of
\* the deletion candidates is left; files of other prefixes are never deleted.
C12_CountModeRuns ==
    NonDryCountRun =>
        LET before == drive_before[1].files
            series == SelectSeq(drive_files, InSeries)
        IN  /\ mpc = "exit" =>
                   /\ Len(series) <= keep_old[1] + 1
                   /\ series # <<>>
                   /\ series[Len(series)].id \notin Ids(before)
                   /\ series[Len(series)].name = TarfileName(BackupPrefix, now)
            /\ mpc = "delete" => Ids(drive_files) \subseteq Ids(before)
            /\ mpc \in {"upload", "unlink", "exit"} =>
                   Ids(result) \cap Ids(drive_files) = {}
            /\ \A i \in 1..Len(before) :
                   ~InSeries(before[i]) =>
                       \E j \in 1..Len(drive_files) : drive_files[j] = before[i]

\* the second run with keep-old 1 has completed: it deleted an old backup,
\* two files of the series are left and a file of another prefix is still there
C12_Witness ==
    /\ NonDryCountRun
    /\ mpc = "exit"
    /\ runs = 2
    /\ keep_old[1] = 1
    /\ result # <<>>
    /\ Len(SelectSeq(drive_files, InSeries)) = 2
    /\ \E j \in 1..Len(drive_files) : ~InSeries(drive_files[j])

====
